---- MODULE Spec2Model ----
(***************************************************************************)
(* mTask (src/mtask.py): a Redis-list task queue with a processing         *)
(* sidecar, a pool of asyncio executors per queue, and a pause/resume      *)
(* control loop.  One registered queue QName is modelled.  Every store     *)
(* command is one atomic step; an executor, the pause_queue caller and     *)
(* the reconcile loop each sit at the await they are suspended on.         *)
(***************************************************************************)
EXTENDS Integers, Sequences, FiniteSets, TLC

\* ------------------------------------------------------------------ bounds
MaxTasks == 2          \* enqueue calls in a run
MaxPauses == 1         \* pause_queue calls in a run that find the pool
MaxLen == 2            \* list length of the store states recovery is run on
MaxRecover == 2        \* consecutive startups in the recovery specification

MaxConcurrency == 2    \* largest concurrency the queue is registered with
MaxRetry == 2          \* largest retry_limit mTask is constructed with
MaxFaults == 1         \* store commands that fail in a run
MaxClock == 4          \* seconds of wall clock the scheduler is followed for
Interval == 1          \* period in seconds of the interval trigger
CronStep == 2          \* the cron trigger matches every CronStep-th second

QName == "q"
Absent == "absent"     \* a key or field that is not there
KwargsSet == {"a"}
PyNone == "None"       \* the default of enqueue's kwargs parameter
EmptyDict == "{}"
ApiKwargs == {PyNone, EmptyDict, "a", "b"}
Triggers == {"interval", "cron"}
ForeignName == "other" \* the name of a task no handler is registered for
\* the queues registered in the start-up specification, in registry order
QueueOrder == <<"q", "r">>
Queues == {QueueOrder[k] : k \in 1..Len(QueueOrder)}
\* the store commands of an executor
Cmds == {"blpop", "rpush", "requeue", "lrange", "lrem", "get", "set", "lpush",
         "delete"}
Never == 0 - 1         \* last_run of a trigger that has not run: None
Execs == 1..MaxConcurrency
Ids == 1..MaxTasks

\* the configurations explored: one executor with the largest retry budget,
\* the largest pool with one retry
Configs ==
    {[concurrency |-> 1, retry_limit |-> MaxRetry],
     [concurrency |-> MaxConcurrency, retry_limit |-> 1]}

VARIABLES
    Q,              \* list QName of the store
    P,              \* list QName:processing of the store
    status_key,     \* key queue_status:QName of the store
    concurrency,    \* task_registry[QName]["concurrency"]
    retry_limit,    \* mTask.retry_limit
    queue_status,   \* mTask.queue_status[QName]
    workers,        \* QName in mTask.workers
    semaphores,     \* QName in mTask.semaphores
    running,        \* Worker._running of the pool of QName
    sem,            \* free permits of the pool's semaphore
    pc,             \* the await each executor is suspended on
    cur,            \* the task dict an executor holds
    raw,            \* the task_json an executor holds
    cancelled,      \* the executor has received CancelledError
    outcome,        \* how the handler ended for the task held
    ppc,            \* position of the pause_queue call
    ptasks,         \* tasks read by pause_queue's lrange
    presult,        \* how the last pause_queue call ended
    pauses,         \* pause_queue calls made
    tpc,            \* position of monitor_queue_status
    phase,          \* position of run()
    recovers,       \* startups that ran recover_processing_tasks
    recover_in,     \* the lists as the first recovery found them
    first_recover,  \* the lists as the first recovery left them
    next_id,        \* ids minted by enqueue
    invocations,    \* handler invocations per id
    terminal,       \* ids whose terminal step has happened
    done,           \* ids whose process_task returned after the terminal step
    rq_last,        \* retry_count of the last requeue, per id
    rq_repeat,      \* ids requeued with a retry_count not above the last one
    popped,         \* ids in the order of their first BLPOP
    api,            \* the call a direct caller of TaskQueue is in, and its last one
    now,            \* datetime.now(), in seconds
    is_running,     \* ScheduledTask.is_running of each trigger
    next_run,       \* ScheduledTask.next_run of each trigger
    last_run,       \* ScheduledTask.last_run of each trigger
    created,        \* run() tasks of each trigger created and not yet started
    inflight,       \* run() tasks of each trigger awaiting self.func()
    last_tick,      \* what the last scheduler tick did with each trigger
    last_end,       \* how the last handler execution of each trigger ended
    faults,         \* store commands that have failed, per command
    run_pc,         \* start-up of several queues: position of run()
    registry,       \* start-up: concurrency of each registered queue
    recovered,      \* start-up: queues whose recovery call has returned
    side_len,       \* start-up: length of each queue's sidecar
    main_len,       \* start-up: length of each queue's main list
    handles,        \* start-up: the queues in mTask.workers
    ready,          \* start-up: tasks created and not yet run, oldest first
    begun           \* start-up: tasks that have run up to their first await

store == <<Q, P, status_key>>
config == <<concurrency, retry_limit>>
coord == <<config, queue_status, workers, semaphores, running, sem>>
execs == <<pc, cur, raw, cancelled, outcome>>
pausev == <<ppc, ptasks, presult, pauses>>
ghost == <<next_id, popped, invocations, terminal, done, rq_last, rq_repeat>>
startv == <<phase, recovers, recover_in, first_recover>>
schedv ==
    <<now, is_running, next_run, last_run, created, inflight, last_tick, last_end>>
bootv == <<run_pc, registry, recovered, side_len, main_len, handles, ready, begun>>
aux == <<api, schedv, faults, bootv>>
vars == <<store, coord, execs, pausev, tpc, startv, ghost, aux>>

\* ------------------------------------------------------------ task encoding
NoTask == [id |-> 0, name |-> QName, kwargs |-> Absent, status |-> Absent,
           retry_count |-> 0, start_time |-> Absent]
NoJson == <<>>

\* json.dumps(task): the keys of the dict in insertion order; start_time is
\* a key only when the worker has stamped it.
Dumps(t) ==
    IF t.start_time = Absent
    THEN <<t.id, t.name, t.kwargs, t.status, t.retry_count>>
    ELSE <<t.id, t.name, t.kwargs, t.status, t.retry_count, t.start_time>>

\* json.loads(task_json)
Loads(j) ==
    [id |-> j[1], name |-> j[2], kwargs |-> j[3], status |-> j[4],
     retry_count |-> j[5],
     start_time |-> IF Len(j) > 5 THEN j[6] ELSE Absent]

\* kwargs or {}
OrEmpty(kw) == IF kw \in {PyNone, EmptyDict} THEN EmptyDict ELSE kw

\* a task dict that has lost its kwargs
NewTaskDropsKwargs(i, kw) ==
    [id |-> i, name |-> QName, kwargs |-> EmptyDict, status |-> "pending",
     retry_count |-> 0, start_time |-> Absent]

\* the dict built by enqueue
NewTask(i, kw) ==
    [id |-> i, name |-> QName, kwargs |-> OrEmpty(kw), status |-> "pending",
     retry_count |-> 0, start_time |-> Absent]

\* a direct caller of TaskQueue: the call in progress or just returned, and
\* what is kept of the call before it
NoSummary == [op |-> "none", id |-> 0, kwargs |-> Absent, Q0 |-> <<>>, P0 |-> <<>>]
NoCall ==
    [op |-> "none", pc |-> "idle", id |-> 0, kwargs |-> Absent, json |-> NoJson,
     task |-> NoTask, ret |-> "none", Q0 |-> <<>>, P0 |-> <<>>,
     prev |-> NoSummary]

\* ------------------------------------------------------------ store commands
\* a push that lands at the head
RPushAtHead(list, v) == <<v>> \o list

\* RPUSH key v: the value becomes the tail
RPush(list, v) == Append(list, v)

\* a push of several values that lands behind the waiting entries
LPushAtTail(list, vals) == list \o vals

RECURSIVE LPush(_, _)
\* LPUSH key v1 v2 ...: each value in turn becomes the new head
LPush(list, vals) ==
    IF vals = <<>> THEN list
    ELSE LPush(<<Head(vals)>> \o list, Tail(vals))

\* the list passed on as it was read
ReverseForgotten(s) == s

\* tasks[::-1]
Reverse(s) == [k \in 1..Len(s) |-> s[Len(s) + 1 - k]]

\* LREM key 0 v: every element equal to v goes
LRem(list, v) == SelectSeq(list, LAMBDA x : x # v)

\* a scan that takes the first entry whatever its id
FirstWithIdUntested(tasks, i) == IF tasks # <<>> THEN 1 ELSE 0

\* the scan of mark_completed: index of the first entry carrying the id, or 0
FirstWithId(tasks, i) ==
    IF \E k \in 1..Len(tasks) : Loads(tasks[k]).id = i
    THEN CHOOSE k \in 1..Len(tasks) :
            /\ Loads(tasks[k]).id = i
            /\ \A m \in 1..(k - 1) : Loads(tasks[m]).id # i
    ELSE 0

IdsOf(list) == {Loads(list[k]).id : k \in 1..Len(list)}
CountId(list, i) == Cardinality({k \in 1..Len(list) : Loads(list[k]).id = i})


\* ------------------------------------------------------------- ScheduledTask
\* croniter(expr, n).get_next(): the first matching second after n
CronNext(n) == ((n \div CronStep) + 1) * CronStep

\* _get_next_run at second n: now + interval, or the next cron match
GetNextRun(t, n) == IF t = "interval" THEN n + Interval ELSE CronNext(n)

\* ------------------------------------------------------------------- Init
\* the process after mTask(...) and the agent decorator, before run()
FreshProcess ==
    /\ \E c \in Configs :
          concurrency = c.concurrency /\ retry_limit = c.retry_limit
    /\ queue_status = "Running"
    /\ workers = FALSE /\ semaphores = FALSE /\ running = FALSE
    /\ sem = 0
    /\ pc = [e \in Execs |-> "dead"]
    /\ cur = [e \in Execs |-> NoTask]
    /\ raw = [e \in Execs |-> NoJson]
    /\ cancelled = [e \in Execs |-> FALSE]
    /\ outcome = [e \in Execs |-> "none"]
    /\ ppc = "idle" /\ ptasks = <<>> /\ presult = "none" /\ pauses = 0
    /\ tpc = "off"
    /\ phase = "connected" /\ recovers = 0
    /\ recover_in = <<>> /\ first_recover = <<>>
    /\ invocations = [i \in Ids |-> 0]
    /\ terminal = {} /\ done = {}
    /\ rq_last = [i \in Ids |-> 0] /\ rq_repeat = {}
    /\ popped = <<>>
    /\ api = NoCall
    /\ now = 0
    /\ is_running = [t \in Triggers |-> FALSE]
    /\ next_run = [t \in Triggers |-> GetNextRun(t, 0)]
    /\ last_run = [t \in Triggers |-> Never]
    /\ created = [t \in Triggers |-> 0]
    /\ inflight = [t \in Triggers |-> 0]
    /\ last_tick = [t \in Triggers |-> "none"]
    /\ last_end = [t \in Triggers |-> "none"]
    /\ faults = [c \in Cmds |-> 0]

\* run() not yet called, the tasks it will create not yet there
NotStarted ==
    /\ run_pc = "new"
    /\ recovered = 0
    /\ main_len = [q \in Queues |-> 0]
    /\ handles = {}
    /\ ready = <<>>
    /\ begun = {}

Fresh ==
    /\ FreshProcess
    /\ NotStarted
    /\ registry = [q \in Queues |-> 1]
    /\ side_len = [q \in Queues |-> 0]

Init ==
    /\ Q = <<>> /\ P = <<>> /\ status_key = Absent
    /\ next_id = 0
    /\ Fresh

AllDead == \A e \in Execs : pc[e] = "dead"

\* ---------------------------------------------------------------- producer
\* TaskQueue.enqueue: mint an id, push the encoded task at the tail
Enqueue ==
    /\ next_id < MaxTasks
    /\ \E kw \in KwargsSet :
          Q' = RPush(Q, Dumps(NewTask(next_id + 1, kw)))
    /\ next_id' = next_id + 1
    /\ UNCHANGED <<P, status_key, coord, execs, pausev, tpc, startv, popped,
                   invocations, terminal, done, rq_last, rq_repeat>>
    /\ UNCHANGED aux

\* ----------------------------------------------------------------- startup
\* the recovery without its delete
RecoverListsKeep(q, p) ==
    IF p # <<>> THEN <<LPush(q, Reverse(p)), p>> ELSE <<q, p>>

\* recover_processing_tasks: lrange, lpush of the reversed list, delete
RecoverLists(q, p) ==
    IF p # <<>> THEN <<LPush(q, Reverse(p)), <<>>>> ELSE <<q, p>>

\* Worker(...) with a fresh Semaphore(concurrency), then Worker.start:
\* every executor enters its work loop, takes a permit and awaits blpop
\* a semaphore one permit too large
PoolSizeOffByOne(c) == c + 1

\* asyncio.Semaphore(concurrency); Worker.start spawns semaphore._value executors
PoolSize(c) == c
Spawned(n) == {e \in Execs : e <= n}

StartPool ==
    /\ workers' = TRUE
    /\ running' = TRUE
    /\ semaphores' = TRUE
    /\ sem' = PoolSize(concurrency) - Cardinality(Spawned(PoolSize(concurrency)))
    /\ pc' = [e \in Execs |->
                IF e \in Spawned(PoolSize(concurrency)) THEN "blpop" ELSE "dead"]
    /\ cur' = [e \in Execs |-> NoTask]
    /\ raw' = [e \in Execs |-> NoJson]
    /\ cancelled' = [e \in Execs |-> FALSE]
    /\ outcome' = [e \in Execs |-> "none"]

\* connect_and_start_workers, first loop
Recover ==
    /\ phase = "connected"
    /\ Q' = RecoverLists(Q, P)[1]
    /\ P' = RecoverLists(Q, P)[2]
    /\ recovers' = recovers + 1
    /\ recover_in' = IF recovers = 0 THEN <<Q, P>> ELSE recover_in
    /\ first_recover' = IF recovers = 0 THEN <<Q', P'>> ELSE first_recover
    /\ phase' = "recovered"
    /\ UNCHANGED <<status_key, coord, execs, pausev, tpc,
                   next_id, popped, invocations, terminal, done, rq_last, rq_repeat>>
    /\ UNCHANGED aux

\* connect_and_start_workers, second loop, and run(): the pools, then the
\* scheduler and the reconcile loop
StartWorkers ==
    /\ phase = "recovered"
    /\ StartPool
    /\ phase' = "running"
    /\ tpc' = "sleep"
    /\ UNCHANGED <<store, config, queue_status, pausev, recovers,
                   recover_in, first_recover, ghost>>
    /\ UNCHANGED aux

\* --------------------------------------------------------------- executors
\* the record of first pops: an id is added when it is popped for the first time
FirstPops(seen, i) ==
    IF \E k \in 1..Len(seen) : seen[k] = i THEN seen ELSE Append(seen, i)

\* dequeue, first await: BLPOP pops the head of the main list
Blpop(e) ==
    /\ pc[e] = "blpop"
    /\ Q # <<>>
    /\ raw' = [raw EXCEPT ![e] = Head(Q)]
    /\ Q' = Tail(Q)
    /\ pc' = [pc EXCEPT ![e] = "rpush"]
    /\ popped' = FirstPops(popped, Loads(Head(Q)).id)
    /\ UNCHANGED <<P, status_key, coord, cur, cancelled, outcome, pausev,
                   tpc, startv, next_id, invocations, terminal, done, rq_last,
                   rq_repeat>>
    /\ UNCHANGED aux

\* BLPOP times out after 5 s on an empty list: dequeue returns None, the work
\* loop sleeps 1 s, releases the semaphore, takes it again and awaits BLPOP
BlpopTimeout(e) ==
    /\ pc[e] = "blpop"
    /\ Q = <<>>
    /\ UNCHANGED vars

\* one more handler invocation; the count stops at retry_limit + 2
Counted(n) == IF n > retry_limit + 1 THEN n ELSE n + 1

\* process_task: task_registry.get(name, {}).get("func") is there
Registered(name) == name = QName

\* process_task raises TaskFunctionNotFoundError ahead of its try: the work
\* loop logs it and goes to its next iteration
AfterNotFound == "blpop"

\* dequeue, second await: the popped bytes go to the sidecar; then
\* process_task up to the await of the handler, or to its raise when no
\* handler is registered for the task's name
Rpush(e) ==
    /\ pc[e] = "rpush"
    /\ P' = RPush(P, raw[e])
    /\ IF Registered(Loads(raw[e]).name)
       THEN /\ cur' = [cur EXCEPT
                         ![e] = [Loads(raw[e]) EXCEPT !.start_time = "now"]]
            /\ invocations' =
                  [invocations EXCEPT ![Loads(raw[e]).id] = Counted(@)]
            /\ pc' = [pc EXCEPT ![e] = "handler"]
            /\ raw' = raw
       ELSE /\ pc' = [pc EXCEPT ![e] = AfterNotFound]
            /\ raw' = [raw EXCEPT ![e] = NoJson]
            /\ UNCHANGED <<cur, invocations>>
    /\ UNCHANGED <<Q, status_key, coord, cancelled, outcome, pausev,
                   tpc, startv, next_id, popped, terminal, done, rq_last, rq_repeat>>
    /\ UNCHANGED aux

\* a retry rule that grants one retry more
MayRetryInclusive(t) == t.retry_count <= retry_limit

\* the retry rule of process_task, except asyncio.TimeoutError
MayRetryOnTimeout(t) == t.retry_count < retry_limit

\* the retry rule of process_task, except Exception
MayRetry(t) == t.retry_count < retry_limit

\* a retried dict that keeps the worker's stamp
RetryTaskKeepsStart(t) ==
    [t EXCEPT !.retry_count = @ + 1, !.status = "pending"]

\* process_task: retry_count += 1; requeue, before its await: status and
\* start_time of the dict
RetryTask(t) ==
    [t EXCEPT !.retry_count = @ + 1, !.status = "pending",
              !.start_time = Absent]

\* process_task: the handler returns, raises or runs into its timeout
Handler(e) ==
    /\ pc[e] = "handler"
    /\ \E how \in {"ok", "timeout", "error"} :
          IF how = "ok"
          THEN /\ outcome' = [outcome EXCEPT ![e] = "success"]
               /\ terminal' = terminal \cup {cur[e].id}
               /\ pc' = [pc EXCEPT ![e] = "lrange"]
               /\ cur' = cur
          ELSE IF (IF how = "timeout" THEN MayRetryOnTimeout(cur[e])
                   ELSE MayRetry(cur[e]))
          THEN /\ outcome' = [outcome EXCEPT ![e] = "retry"]
               /\ cur' = [cur EXCEPT ![e] = RetryTask(cur[e])]
               /\ pc' = [pc EXCEPT ![e] = "requeue"]
               /\ terminal' = terminal
          ELSE /\ outcome' = [outcome EXCEPT ![e] = "exhausted"]
               /\ terminal' = terminal \cup {cur[e].id}
               /\ pc' = [pc EXCEPT ![e] = "lrange"]
               /\ cur' = cur
    /\ UNCHANGED <<store, coord, raw, cancelled, pausev, tpc, startv,
                   next_id, popped, invocations, done, rq_last, rq_repeat>>
    /\ UNCHANGED aux

\* the record of a requeue: its retry_count, and whether it is above the
\* retry_count of the requeue of the same id before it
Logged(e, last) == [last EXCEPT ![cur[e].id] = cur[e].retry_count]
Repeats(e, last, rep) ==
    IF cur[e].retry_count > last[cur[e].id] THEN rep ELSE rep \cup {cur[e].id}

\* requeue: the changed task goes to the tail of the main list
Requeue(e) ==
    /\ pc[e] = "requeue"
    /\ Q' = RPush(Q, Dumps(cur[e]))
    /\ rq_last' = Logged(e, rq_last)
    /\ rq_repeat' = Repeats(e, rq_last, rq_repeat)
    /\ pc' = [pc EXCEPT ![e] = "lrange"]
    /\ UNCHANGED <<P, status_key, coord, cur, raw, cancelled, outcome,
                   pausev, tpc, startv, next_id, popped, invocations, terminal,
                   done>>
    /\ UNCHANGED aux

\* a permit that is kept on the way out of the with block
ReleaseForgotten(s) == s

\* async with self.semaphore: the exit gives the permit back, the entry of the
\* next iteration takes one; with a permit free the entry does not suspend
Release(s) == s + 1
Acquire(s) == s - 1

\* process_task has ended: the executor dies if it was cancelled, else its
\* terminal outcome is final and it loops
Finish(e) ==
    /\ pc' = [pc EXCEPT ![e] = IF cancelled[e] THEN "dead" ELSE "blpop"]
    /\ sem' = IF cancelled[e] THEN Release(sem) ELSE Acquire(Release(sem))
    /\ done' = IF ~cancelled[e] /\ outcome[e] \in {"success", "exhausted"}
               THEN done \cup {cur[e].id} ELSE done
    /\ cur' = [cur EXCEPT ![e] = NoTask]
    /\ raw' = [raw EXCEPT ![e] = NoJson]
    /\ outcome' = [outcome EXCEPT ![e] = "none"]
    /\ cancelled' = [cancelled EXCEPT ![e] = FALSE]

\* mark_completed, first await: lrange and the scan for the id
MarkLrange(e) ==
    /\ pc[e] = "lrange"
    /\ IF FirstWithId(P, cur[e].id) = 0
       THEN Finish(e)
       ELSE /\ raw' = [raw EXCEPT ![e] = P[FirstWithId(P, cur[e].id)]]
            /\ pc' = [pc EXCEPT ![e] = "lrem"]
            /\ UNCHANGED <<sem, done, cur, outcome, cancelled>>
    /\ UNCHANGED <<store, config, queue_status, workers, semaphores, running,
                   pausev, tpc, startv, next_id, popped, invocations, terminal,
                   rq_last, rq_repeat>>
    /\ UNCHANGED aux

\* mark_completed, second await: lrem of the bytes found
MarkLrem(e) ==
    /\ pc[e] = "lrem"
    /\ P' = LRem(P, raw[e])
    /\ Finish(e)
    /\ UNCHANGED <<Q, status_key, config, queue_status, workers, semaphores,
                   running, pausev, tpc, startv, next_id, popped, invocations,
                   terminal, rq_last, rq_repeat>>
    /\ UNCHANGED aux


\* --------------------------------------------------------------- Worker.stop
\* The executors whose pending store command may already have been sent when
\* the CancelledError arrives: the command takes effect or it does not.
Writing == {e \in Execs : pc[e] \in {"rpush", "requeue"}}

RECURSIVE StopP(_, _, _)
\* the sidecar after the cancelled dequeues whose rpush took effect
StopP(e, S, p) ==
    IF e > MaxConcurrency THEN p
    ELSE StopP(e + 1, S,
               IF e \in S /\ pc[e] = "rpush" THEN RPush(p, raw[e]) ELSE p)

RECURSIVE StopQ(_, _, _)
\* the main list after the cancelled requeues whose rpush took effect
StopQ(e, S, q) ==
    IF e > MaxConcurrency THEN q
    ELSE StopQ(e + 1, S,
               IF e \in S /\ pc[e] = "requeue" THEN RPush(q, Dumps(cur[e]))
               ELSE q)

RECURSIVE StopLog(_, _, _)
\* the record of those requeues: <<rq_last, rq_repeat>>
StopLog(e, S, log) ==
    IF e > MaxConcurrency THEN log
    ELSE StopLog(e + 1, S,
                 IF e \in S /\ pc[e] = "requeue"
                 THEN <<Logged(e, log[1]), Repeats(e, log[1], log[2])>>
                 ELSE log)

\* where the CancelledError leaves an executor: inside process_task the
\* finally clause still runs mark_completed, elsewhere the work loop breaks
CancelPc(e) ==
    IF pc[e] \in {"handler", "requeue"} THEN "lrange" ELSE "dead"

\* a stop that frees no permit
StopReleasedNone == Cardinality({e \in Execs : FALSE})

\* the permits given back by the executors that end at once: the with block
\* of the work loop is left by the CancelledError
StopReleased ==
    Cardinality({e \in Execs : pc[e] # "dead" /\ CancelPc(e) = "dead"})

\* Worker.stop up to its gather: _running = False, every executor cancelled.
\* S: the executors of Writing whose command took effect.
StopPool(S) ==
    /\ running' = FALSE
    /\ pc' = [e \in Execs |-> CancelPc(e)]
    /\ cancelled' = [e \in Execs |-> CancelPc(e) # "dead"]
    /\ outcome' = [e \in Execs |->
                     IF CancelPc(e) = "dead" THEN "none" ELSE outcome[e]]
    /\ cur' = [e \in Execs |-> IF CancelPc(e) = "dead" THEN NoTask ELSE cur[e]]
    /\ raw' = [e \in Execs |-> NoJson]
    /\ sem' = sem + StopReleased
    /\ P' = StopP(1, S, P)
    /\ Q' = StopQ(1, S, Q)
    /\ rq_last' = StopLog(1, S, <<rq_last, rq_repeat>>)[1]
    /\ rq_repeat' = StopLog(1, S, <<rq_last, rq_repeat>>)[2]

\* -------------------------------------------------------------- pause_queue
\* the test left out
InWorkersSkipped == TRUE

\* queue_name in self.workers
InWorkers == workers

\* the membership test of pause_queue.  MaxPauses bounds the calls that go on
\* to set the status key.
PauseCall ==
    /\ phase = "running"
    /\ ppc = "idle"
    /\ pauses < MaxPauses \/ ~InWorkers \/ status_key = "Paused"
    /\ pauses' = IF InWorkers /\ status_key # "Paused" THEN pauses + 1
                 ELSE pauses
    /\ IF InWorkers
       THEN ppc' = "get" /\ presult' = "none"
       ELSE ppc' = "idle" /\ presult' = "not_found"
    /\ UNCHANGED <<store, coord, execs, ptasks, tpc, startv, ghost>>
    /\ UNCHANGED aux

\* redis.get(status_key) or "Running"
PauseGet ==
    /\ ppc = "get"
    /\ IF status_key = "Paused"
       THEN ppc' = "idle" /\ presult' = "already_paused"
       ELSE ppc' = "set" /\ presult' = presult
    /\ UNCHANGED <<store, coord, execs, ptasks, pauses, tpc, startv, ghost>>
    /\ UNCHANGED aux

\* redis.set(status_key, "Paused", ex=duration) takes effect in the store
PauseSet ==
    /\ ppc = "set"
    /\ status_key' = "Paused"
    /\ ppc' = "stop"
    /\ UNCHANGED <<Q, P, coord, execs, ptasks, presult, pauses, tpc, startv,
                   ghost>>
    /\ UNCHANGED aux

\* the end of pause_queue: the semaphore dropped, the mirror set
PauseEnd ==
    /\ semaphores' = FALSE
    /\ queue_status' = "Paused"
    /\ presult' = "ok"
    /\ ppc' = "idle"

\* del self.workers[queue_name]: KeyError when the reconcile loop was first
PauseDel ==
    IF workers
    THEN workers' = FALSE /\ ppc' = "lrange" /\ presult' = presult
    ELSE workers' = FALSE /\ ppc' = "idle" /\ presult' = "error"

\* the set has returned: self.workers[queue_name].stop()
PauseStop ==
    /\ ppc = "stop"
    /\ IF ~workers
       THEN /\ ppc' = "idle" /\ presult' = "error"
            /\ UNCHANGED <<Q, P, coord, execs, rq_last, rq_repeat>>
       ELSE IF running
       THEN /\ \E S \in SUBSET Writing : StopPool(S)
            /\ ppc' = "gather"
            /\ UNCHANGED <<config, queue_status, workers, semaphores, presult>>
       ELSE /\ PauseDel
            /\ UNCHANGED <<Q, P, config, queue_status, semaphores, running, sem,
                           execs, rq_last, rq_repeat>>
    /\ UNCHANGED <<status_key, ptasks, pauses, tpc, startv, next_id, popped,
                   invocations, terminal, done>>
    /\ UNCHANGED aux

\* stop's gather has returned: every executor has ended
PauseGather ==
    /\ ppc = "gather"
    /\ AllDead
    /\ PauseDel
    /\ UNCHANGED <<store, config, queue_status, semaphores, running, sem, execs,
                   ptasks, pauses, tpc, startv, ghost>>
    /\ UNCHANGED aux

\* the drain: lrange of the sidecar
PauseLrange ==
    /\ ppc = "lrange"
    /\ IF P = <<>>
       THEN PauseEnd /\ ptasks' = <<>>
       ELSE /\ ptasks' = P
            /\ ppc' = "lpush"
            /\ UNCHANGED <<queue_status, semaphores, presult>>
    /\ UNCHANGED <<store, config, workers, running, sem, execs, pauses, tpc, startv,
                   ghost>>
    /\ UNCHANGED aux

\* the drain: lpush of the reversed list
PauseLpush ==
    /\ ppc = "lpush"
    /\ Q' = LPush(Q, Reverse(ptasks))
    /\ ppc' = "delete"
    /\ UNCHANGED <<P, status_key, coord, execs, ptasks, presult, pauses, tpc,
                   startv, next_id, popped, invocations, terminal, done, rq_last, rq_repeat>>
    /\ UNCHANGED aux

\* the drain: delete of the sidecar, then the end of pause_queue
PauseDelete ==
    /\ ppc = "delete"
    /\ P' = <<>>
    /\ ptasks' = <<>>
    /\ PauseEnd
    /\ UNCHANGED <<Q, status_key, config, workers, running, sem, execs, pauses, tpc,
                   startv, ghost>>
    /\ UNCHANGED aux

\* the TTL of the status key runs out
Expire ==
    /\ status_key = "Paused"
    /\ status_key' = Absent
    /\ UNCHANGED <<Q, P, coord, execs, pausev, tpc, startv, ghost>>
    /\ UNCHANGED aux

\* ----------------------------------------------------- monitor_queue_status
\* the stored status never read
CurrentStatusUnread == "Running"

\* redis.get(status_key) or "Running"
CurrentStatus == IF status_key = Absent THEN "Running" ELSE status_key

\* one pass over the queue: the read and the branch it takes.  A new pool is
\* started only when the stop of the previous one is over: a stop lasts a few
\* store round trips, two ticks are 5 s apart.
Tick ==
    /\ tpc = "sleep"
    /\ CurrentStatus # queue_status
    /\ IF CurrentStatus = "Paused"
       THEN /\ queue_status' = "Paused"
            /\ IF workers /\ running
               THEN /\ \E S \in SUBSET Writing : StopPool(S)
                    /\ tpc' = "gather"
                    /\ UNCHANGED <<workers, semaphores>>
               ELSE /\ workers' = FALSE
                    /\ UNCHANGED <<Q, P, semaphores, running, sem, execs,
                                   rq_last, rq_repeat, tpc>>
       ELSE IF CurrentStatus = "Running"
       THEN /\ queue_status' = "Running"
            /\ IF workers
               THEN UNCHANGED <<workers, semaphores, running, sem, execs>>
               ELSE AllDead /\ ppc = "idle" /\ StartPool
            /\ UNCHANGED <<Q, P, rq_last, rq_repeat, tpc>>
       ELSE UNCHANGED <<Q, P, coord, execs, rq_last, rq_repeat, tpc>>
    /\ UNCHANGED <<status_key, config, pausev, startv, next_id, popped,
                   invocations, terminal, done>>
    /\ UNCHANGED aux

\* the stop awaited by the reconcile loop has returned: del self.workers[...]
\* raises KeyError, and ends the loop, when pause_queue deleted the pool
TickGather ==
    /\ tpc = "gather"
    /\ AllDead
    /\ tpc' = IF workers THEN "sleep" ELSE "crashed"
    /\ workers' = FALSE
    /\ UNCHANGED <<store, config, queue_status, semaphores, running, sem, execs,
                   pausev, startv, ghost>>
    /\ UNCHANGED aux

\* ------------------------------------------------------------ specification
Next ==
    \/ Enqueue
    \/ Recover
    \/ StartWorkers
    \/ \E e \in Execs : Blpop(e)
    \/ \E e \in Execs : BlpopTimeout(e)
    \/ \E e \in Execs : Rpush(e)
    \/ \E e \in Execs : Handler(e)
    \/ \E e \in Execs : Requeue(e)
    \/ \E e \in Execs : MarkLrange(e)
    \/ \E e \in Execs : MarkLrem(e)
    \/ PauseCall
    \/ PauseGet
    \/ PauseSet
    \/ PauseStop
    \/ PauseGather
    \/ PauseLrange
    \/ PauseLpush
    \/ PauseDelete
    \/ Expire
    \/ Tick
    \/ TickGather

Spec == Init /\ [][Next]_vars


\* ------------------------------------------- recovery on any store contents
\* the encoded tasks a store can hold for this queue: as enqueued, and as
\* requeued once
Entries ==
    {Dumps([NewTask(i, kw) EXCEPT !.retry_count = r]) :
        i \in Ids, kw \in KwargsSet, r \in 0..1}
Lists == UNION {[1..n -> Entries] : n \in 0..MaxLen}

\* a process that starts on the lists an earlier process left behind
InitRecover ==
    /\ Q \in Lists /\ P \in Lists /\ status_key = Absent
    /\ next_id = MaxTasks
    /\ Fresh

\* run() ends before the pools start and is started again
Restart ==
    /\ phase = "recovered"
    /\ recovers < MaxRecover
    /\ phase' = "connected"
    /\ UNCHANGED <<store, coord, execs, pausev, tpc, recovers, recover_in,
                   first_recover, ghost>>
    /\ UNCHANGED aux

NextRecover == Recover \/ Restart

SpecRecover == InitRecover /\ [][NextRecover]_vars

\* ------------------------------------ TaskQueue called on any store contents
ListsOf(n) == {l \in Lists : IdsOf(l) \subseteq 1..n}

\* a connected TaskQueue on the lists of a store in which n ids are in use
InitQueue ==
    /\ \E n \in 0..MaxTasks :
          next_id = n /\ Q \in ListsOf(n) /\ P \in ListsOf(n)
    /\ status_key = Absent
    /\ Fresh

Summary(c) ==
    [op |-> c.op, id |-> c.id, kwargs |-> c.kwargs, Q0 |-> c.Q0, P0 |-> c.P0]

\* a call begins: the lists as it finds them, the call before it
Call(op, i, kw) ==
    [NoCall EXCEPT !.op = op, !.id = i, !.kwargs = kw, !.Q0 = Q, !.P0 = P,
                   !.prev = Summary(api)]

ApiFrame ==
    UNCHANGED <<status_key, coord, execs, pausev, tpc, startv, popped,
                invocations, terminal, done, rq_last, rq_repeat, schedv, faults,
                bootv>>

\* TaskQueue.enqueue called directly
ApiEnqueue ==
    /\ api.pc = "idle"
    /\ next_id < MaxTasks
    /\ \E kw \in ApiKwargs :
          /\ Q' = RPush(Q, Dumps(NewTask(next_id + 1, kw)))
          /\ api' = [Call("enqueue", next_id + 1, kw) EXCEPT !.ret = "id"]
    /\ next_id' = next_id + 1
    /\ P' = P
    /\ ApiFrame

\* TaskQueue.dequeue called directly, first await: BLPOP finds an entry
ApiBlpop ==
    /\ api.pc = "idle"
    /\ Q # <<>>
    /\ Q' = Tail(Q)
    /\ api' = [Call("dequeue", 0, Absent) EXCEPT !.pc = "rpush", !.json = Head(Q)]
    /\ UNCHANGED <<P, next_id>>
    /\ ApiFrame

\* BLPOP times out: dequeue returns None
ApiBlpopTimeout ==
    /\ api.pc = "idle"
    /\ Q = <<>>
    /\ api' = [Call("dequeue", 0, Absent) EXCEPT !.ret = "None"]
    /\ UNCHANGED <<Q, P, next_id>>
    /\ ApiFrame

\* dequeue, second await, and its return value
ApiRpush ==
    /\ api.pc = "rpush"
    /\ P' = RPush(P, api.json)
    /\ api' = [api EXCEPT !.pc = "idle", !.task = Loads(api.json), !.ret = "task"]
    /\ UNCHANGED <<Q, next_id>>
    /\ ApiFrame

\* TaskQueue.mark_completed called directly, first await
ApiMarkLrange ==
    /\ api.pc = "idle"
    /\ \E i \in Ids :
          api' = IF FirstWithId(P, i) = 0
                 THEN [Call("mark_completed", i, Absent) EXCEPT !.ret = "ok"]
                 ELSE [Call("mark_completed", i, Absent) EXCEPT
                          !.pc = "lrem", !.json = P[FirstWithId(P, i)]]
    /\ UNCHANGED <<Q, P, next_id>>
    /\ ApiFrame

\* mark_completed, second await
ApiMarkLrem ==
    /\ api.pc = "lrem"
    /\ P' = LRem(P, api.json)
    /\ api' = [api EXCEPT !.pc = "idle", !.ret = "ok"]
    /\ UNCHANGED <<Q, next_id>>
    /\ ApiFrame

NextQueue ==
    \/ ApiEnqueue
    \/ ApiBlpop
    \/ ApiBlpopTimeout
    \/ ApiRpush
    \/ ApiMarkLrange
    \/ ApiMarkLrem

SpecQueue == InitQueue /\ [][NextQueue]_vars

\* ------------------------------------------------------------------ claims
InFlight == {e \in Execs : pc[e] = "handler"}
Holds(e, i) ==
    \/ cur[e].id = i
    \/ raw[e] # NoJson /\ Loads(raw[e]).id = i
Quiescent ==
    /\ \A e \in Execs : pc[e] \in {"blpop", "dead"}
    /\ ppc = "idle"
    /\ tpc # "gather"

\* C1: once the terminal step of a task has happened and process_task has
\* returned, and no executor holds a copy of the task, neither the main list
\* nor the sidecar has an entry with its id.
C1_TerminalTaskGone ==
    \A i \in done :
        (ppc = "idle" /\ \A e \in Execs : ~Holds(e, i))
            => i \notin (IdsOf(Q) \cup IdsOf(P))

\* C2: at every quiescent point each enqueued id is in the two lists together
\* exactly once if it has had no terminal step and not at all if it has.
C2_Conservation ==
    Quiescent =>
        \A i \in 1..next_id :
            CountId(Q, i) + CountId(P, i) = IF i \in terminal THEN 0 ELSE 1

\* C3: the handler is invoked at most retry_limit + 1 times for an id.
C3_InvokedAtMost ==
    \A i \in Ids : invocations[i] <= retry_limit + 1

C6_HandlerKeepsOutcome ==
    \A e \in Execs :
        pc[e] \in {"lrange", "lrem"}
            => outcome[e] \in {"success", "retry", "exhausted"}

\* C7: recovery leaves the sidecar entries at the head of the main list, in
\* their order, followed by the main list as it was, and the sidecar empty.
C7_RecoverOrder ==
    (recovers = 1 /\ phase = "recovered")
        => /\ Q = recover_in[2] \o recover_in[1]
           /\ P = <<>>

C7_Witness ==
    /\ recovers = 1 /\ phase = "recovered"
    /\ Len(recover_in[2]) = MaxLen
    /\ recover_in[2][1] # recover_in[2][MaxLen]
    /\ recover_in[1] # <<>>

\* C8: a second recovery with nothing in between leaves the two lists as the
\* first one left them.
C8_RecoverIdempotent ==
    (recovers = 2 /\ phase = "recovered") => <<Q, P>> = first_recover

C8_Witness ==
    /\ recovers = 2 /\ phase = "recovered"
    /\ recover_in[2] # <<>>
    /\ recover_in[1] # <<>>

\* C9: every requeue of an id carries a retry_count above the one
\* of the requeue of that id before it.
C9_RequeueIncreasing == rq_repeat = {}

\* a pause_queue call made right after one that returned: the key still set
SecondPause ==
    /\ ppc = "idle" /\ presult = "ok" /\ status_key = "Paused"
    /\ presult' # presult

\* C10, as claimed: the second call sees the queue already paused and returns.
C10_SecondPauseAlreadyPaused ==
    [][SecondPause
          => /\ presult' = "already_paused"
             /\ UNCHANGED <<store, coord, execs, ppc, tpc>>]_vars

\* C10, amended: the second call finds no pool for the queue, raises
\* mTaskError and changes nothing else.
C10_SecondPauseNotFound ==
    [][SecondPause
          => /\ presult' = "not_found"
             /\ UNCHANGED <<store, coord, execs, ppc, tpc>>]_vars

C10_Witness ==
    /\ presult = "not_found"
    /\ status_key = "Paused"
    /\ queue_status = "Paused"
    /\ pauses > 0

\* a mark_completed call has returned; it is the second of two calls in a row
\* for one id
MarkReturned == api.op = "mark_completed" /\ api.pc = "idle"
MarkTwice ==
    /\ MarkReturned
    /\ api.prev.op = "mark_completed"
    /\ api.prev.id = api.id
MarkMissingNoOp ==
    MarkReturned =>
        /\ api.ret = "ok"
        /\ Q = api.Q0
        /\ api.id \notin IdsOf(api.P0) => P = api.P0

\* the byte strings of a list that carry the id
Carrying(list, i) == {list[k] : k \in {m \in 1..Len(list) : Loads(list[m]).id = i}}

RoundTrip ==
    /\ api.op = "dequeue" /\ api.pc = "idle"
    /\ api.prev.op = "enqueue" /\ api.prev.Q0 = <<>>

\* C12: enqueue then dequeue on an otherwise empty main list returns the task
\* with the id enqueue returned, name QName, the kwargs given ({} when none
\* were given), status pending and retry_count 0; the main list is empty again
\* and the sidecar has gained exactly the bytes popped.
C12_EnqueueDequeue ==
    RoundTrip =>
        /\ api.ret = "task"
        /\ api.task.id = api.prev.id
        /\ api.task.name = QName
        /\ api.task.kwargs =
              IF api.prev.kwargs = PyNone THEN EmptyDict ELSE api.prev.kwargs
        /\ api.task.status = "pending"
        /\ api.task.retry_count = 0
        /\ api.task.start_time = Absent
        /\ Q = <<>>
        /\ P = Append(api.P0, api.Q0[1])

C12_Witness ==
    /\ RoundTrip
    /\ api.prev.kwargs = "b"
    /\ api.P0 # <<>>

\* ------------------------------------------------- a run that is never paused
\* start-up, producers and executors only: no pause_queue call, so the status
\* key stays absent and the reconcile loop has nothing to do
NextRun ==
    \/ Enqueue
    \/ Recover
    \/ StartWorkers
    \/ \E e \in Execs : Blpop(e)
    \/ \E e \in Execs : BlpopTimeout(e)
    \/ \E e \in Execs : Rpush(e)
    \/ \E e \in Execs : Handler(e)
    \/ \E e \in Execs : Requeue(e)
    \/ \E e \in Execs : MarkLrange(e)
    \/ \E e \in Execs : MarkLrem(e)

SpecRun == Init /\ [][NextRun]_vars

\* ------------------------------------------ a never-paused run with failures
\* A store command of an executor raises (connection lost, timeout of the
\* client), at most MaxFaults times in a run; a producer outside this program
\* pushes a task whose name has no registered handler.
Failed == faults["blpop"] + faults["rpush"] + faults["requeue"]
              + faults["lrange"] + faults["lrem"] + faults["get"]
              + faults["set"] + faults["lpush"] + faults["delete"]
Fault(c) ==
    /\ Failed < MaxFaults
    /\ faults' = [faults EXCEPT ![c] = @ + 1]

\* an error that ends the executor
AfterLoopErrorDies == "dead"

\* the work loop's except Exception: the error is logged, the while loop goes
\* to its next iteration and awaits BLPOP again
AfterLoopError == "blpop"

\* a requeue error that skips the finally clause
AfterRequeueErrorSkips == "blpop"

\* process_task's except TaskRequeueError: logged; the finally clause follows
AfterRequeueError == "lrange"

\* a task with another name arrives on the main list
EnqueueForeign ==
    /\ next_id < MaxTasks
    /\ \E kw \in KwargsSet :
          Q' = RPush(Q, Dumps([NewTask(next_id + 1, kw)
                                  EXCEPT !.name = ForeignName]))
    /\ next_id' = next_id + 1
    /\ UNCHANGED <<P, status_key, coord, execs, pausev, tpc, startv, popped,
                   invocations, terminal, done, rq_last, rq_repeat>>
    /\ UNCHANGED <<api, schedv, faults, bootv>>

\* dequeue: BLPOP raises; dequeue raises TaskDequeueError
BlpopFails(e) ==
    /\ pc[e] = "blpop"
    /\ Fault("blpop")
    /\ pc' = [pc EXCEPT ![e] = AfterLoopError]
    /\ sem' = Acquire(Release(sem))
    /\ UNCHANGED <<store, config, queue_status, workers, semaphores, running,
                   cur, raw, cancelled, outcome, pausev, tpc, startv, ghost>>
    /\ UNCHANGED <<api, schedv, bootv>>

\* dequeue: the RPUSH to the sidecar raises after the BLPOP has popped
RpushFails(e) ==
    /\ pc[e] = "rpush"
    /\ Fault("rpush")
    /\ pc' = [pc EXCEPT ![e] = AfterLoopError]
    /\ raw' = [raw EXCEPT ![e] = NoJson]
    /\ sem' = Acquire(Release(sem))
    /\ UNCHANGED <<store, config, queue_status, workers, semaphores, running,
                   cur, cancelled, outcome, pausev, tpc, startv, ghost>>
    /\ UNCHANGED <<api, schedv, bootv>>

\* requeue: the RPUSH raises; requeue raises TaskRequeueError
RequeueFails(e) ==
    /\ pc[e] = "requeue"
    /\ Fault("requeue")
    /\ pc' = [pc EXCEPT ![e] = AfterRequeueError]
    /\ outcome' = [outcome EXCEPT ![e] = "requeue_failed"]
    /\ UNCHANGED <<store, coord, cur, raw, cancelled, pausev, tpc, startv,
                   ghost>>
    /\ UNCHANGED <<api, schedv, bootv>>

\* mark_completed: the LRANGE raises; TaskProcessingError is logged by the
\* finally clause of process_task
MarkLrangeFails(e) ==
    /\ pc[e] = "lrange"
    /\ Fault("lrange")
    /\ Finish(e)
    /\ UNCHANGED <<store, config, queue_status, workers, semaphores, running,
                   pausev, tpc, startv, next_id, popped, invocations, terminal,
                   rq_last, rq_repeat>>
    /\ UNCHANGED <<api, schedv, bootv>>

\* mark_completed: the LREM raises
MarkLremFails(e) ==
    /\ pc[e] = "lrem"
    /\ Fault("lrem")
    /\ Finish(e)
    /\ UNCHANGED <<store, config, queue_status, workers, semaphores, running,
                   pausev, tpc, startv, next_id, popped, invocations, terminal,
                   rq_last, rq_repeat>>
    /\ UNCHANGED <<api, schedv, bootv>>

NextFault ==
    \/ Enqueue
    \/ EnqueueForeign
    \/ Recover
    \/ StartWorkers
    \/ \E e \in Execs : Blpop(e)
    \/ \E e \in Execs : BlpopTimeout(e)
    \/ \E e \in Execs : Rpush(e)
    \/ \E e \in Execs : Handler(e)
    \/ \E e \in Execs : Requeue(e)
    \/ \E e \in Execs : MarkLrange(e)
    \/ \E e \in Execs : MarkLrem(e)
    \/ \E e \in Execs : BlpopFails(e)
    \/ \E e \in Execs : RpushFails(e)
    \/ \E e \in Execs : RequeueFails(e)
    \/ \E e \in Execs : MarkLrangeFails(e)
    \/ \E e \in Execs : MarkLremFails(e)

SpecFault == Init /\ [][NextFault]_vars

\* Worker.stop called on the running pool, without what its caller does next
StopCall ==
    /\ workers /\ running
    /\ \E S \in SUBSET Writing : StopPool(S)
    /\ UNCHANGED <<status_key, config, queue_status, workers, semaphores,
                   pausev, tpc, startv, next_id, popped, invocations, terminal,
                   done>>
    /\ UNCHANGED aux

NextGate == NextFault \/ StopCall

\* store faults and a stop of the pool
SpecGate == Init /\ [][NextGate]_vars

\* the store commands of pause_queue, named as the positions of the call
PauseCmds == {"get", "set", "lrange", "lpush", "delete"}

\* a store command of pause_queue raises: the except clause logs and raises
\* mTaskError to the caller
PauseFails(c) ==
    /\ ppc = c
    /\ Fault(c)
    /\ ppc' = "idle"
    /\ presult' = "error"
    /\ ptasks' = <<>>
    /\ UNCHANGED <<store, coord, execs, pauses, tpc, startv, ghost>>
    /\ UNCHANGED <<api, schedv, bootv>>

NextPauseFault == Next \/ \E c \in PauseCmds : PauseFails(c)

\* pause and resume with store faults inside pause_queue
SpecPauseFault == Init /\ [][NextPauseFault]_vars

\* ---------------------------------------------------------------- scheduler
\* a flag that is never seen set
IsRunningNeverSet(t) == FALSE

\* self.is_running, as read by should_run and by run
IsRunning(t) == is_running[t]

\* ScheduledTask.should_run
ShouldRun(t) == now >= next_run[t] /\ ~IsRunning(t)

\* what is left unchanged by the scheduler and its run() tasks
SchedFrame ==
    UNCHANGED <<store, coord, execs, pausev, tpc, startv, ghost, api, faults,
                bootv>>

\* the wall clock advances by a second
ClockTick ==
    /\ now < MaxClock
    /\ now' = now + 1
    /\ UNCHANGED <<is_running, next_run, last_run, created, inflight, last_tick,
                   last_end>>
    /\ SchedFrame

\* run_scheduled_tasks, one pass of the for loop: no await in it.  The run()
\* tasks created by a pass take their first step before the sleep(1) that
\* follows the pass is over.
SchedTick ==
    /\ \A t \in Triggers : created[t] = 0
    /\ created' = [t \in Triggers |-> IF ShouldRun(t) THEN 1 ELSE 0]
    /\ last_tick' = [t \in Triggers |->
                        IF ShouldRun(t) THEN "created"
                        ELSE IF now >= next_run[t] THEN "skipped"
                        ELSE "early"]
    /\ UNCHANGED <<now, is_running, next_run, last_run, inflight, last_end>>
    /\ SchedFrame

\* ScheduledTask.run up to its await: return when the flag is set, else set it
\* and call the handler
RunStart(t) ==
    /\ created[t] > 0
    /\ created' = [created EXCEPT ![t] = @ - 1]
    /\ IF IsRunning(t)
       THEN UNCHANGED <<is_running, inflight>>
       ELSE /\ is_running' = [is_running EXCEPT ![t] = TRUE]
            /\ inflight' = [inflight EXCEPT ![t] = @ + 1]
    /\ UNCHANGED <<now, next_run, last_run, last_tick, last_end>>
    /\ SchedFrame

\* a flag that stays set when the handler raised
FlagAfterRaise(how) == how = "raise"

\* run's finally clause: self.is_running = False, however the handler ended
FlagAfterRun(how) == FALSE

\* the handler returns, or raises and run's except Exception logs it; then
\* the finally clause of run
RunEnd(t) ==
    /\ inflight[t] > 0
    /\ \E how \in {"return", "raise"} :
          /\ last_end' = [last_end EXCEPT ![t] = how]
          /\ is_running' = [is_running EXCEPT ![t] = FlagAfterRun(how)]
    /\ last_run' = [last_run EXCEPT ![t] = now]
    /\ next_run' = [next_run EXCEPT ![t] = GetNextRun(t, now)]
    /\ inflight' = [inflight EXCEPT ![t] = @ - 1]
    /\ UNCHANGED <<now, created, last_tick>>
    /\ SchedFrame

NextSched ==
    \/ ClockTick
    \/ SchedTick
    \/ \E t \in Triggers : RunStart(t)
    \/ \E t \in Triggers : RunEnd(t)

SpecSched == Init /\ [][NextSched]_vars

\* ------------------------------------------------- start-up of two queues
\* run() with the queues of QueueOrder registered.  The event loop runs the
\* tasks that are ready in the order they were created; a task is followed
\* up to its first await.
Task(kind, q, n) == [kind |-> kind, queue |-> q, n |-> n]
SchedulerTask == Task("scheduler", "-", 0)
ReconcileTask == Task("reconcile", "-", 0)

RECURSIVE StartTasks(_)
\* start_worker for each queue of the list: one Worker.start() task each
StartTasks(qs) ==
    IF qs = <<>> THEN <<>>
    ELSE <<Task("start", Head(qs), 0)>> \o StartTasks(Tail(qs))

\* pools that are started once the first recovery has returned
RecoveriesOverEarly == recovered >= 1

\* the first for loop of connect_and_start_workers has ended
RecoveriesOver == recovered = Len(QueueOrder)

InitStart ==
    /\ Q = <<>> /\ P = <<>> /\ status_key = Absent
    /\ next_id = 0
    /\ FreshProcess
    /\ NotStarted
    /\ registry \in [Queues -> 1..MaxConcurrency]
    /\ side_len \in [Queues -> 0..MaxLen]

StartFrame ==
    UNCHANGED <<store, coord, execs, pausev, tpc, startv, ghost, api, schedv,
                faults, registry>>

\* TaskQueue.connect: from_url and ping; on failure run() logs and returns
Connect ==
    /\ run_pc = "new"
    /\ \E ok \in BOOLEAN : run_pc' = IF ok THEN "recover" ELSE "failed"
    /\ UNCHANGED <<recovered, side_len, main_len, handles, ready, begun>>
    /\ StartFrame

\* recover_processing_tasks of the next queue returns: the sidecar has gone
\* to the main list, or a store error was logged.  After the last one the
\* rest of connect_and_start_workers and of run() up to its sleep has no
\* await: the pools, the scheduler task and the reconcile task are created.
RecoverNext ==
    /\ run_pc = "recover"
    /\ ~RecoveriesOver
    /\ recovered' = recovered + 1
    /\ \E ok \in BOOLEAN :
          IF ok
          THEN /\ main_len' = [main_len EXCEPT ![QueueOrder[recovered + 1]] =
                                  @ + side_len[QueueOrder[recovered + 1]]]
               /\ side_len' = [side_len EXCEPT ![QueueOrder[recovered + 1]] = 0]
          ELSE UNCHANGED <<main_len, side_len>>
    /\ UNCHANGED <<run_pc, handles, ready, begun>>
    /\ StartFrame

StartAll ==
    /\ run_pc = "recover"
    /\ RecoveriesOver
    /\ handles' = Queues
    /\ ready' = ready \o StartTasks(QueueOrder)
                      \o <<SchedulerTask, ReconcileTask>>
    /\ run_pc' = "sleep"
    /\ UNCHANGED <<recovered, side_len, main_len, begun>>
    /\ StartFrame

\* the tasks a task creates before its first await: Worker.start creates the
\* supervisors, a supervisor creates its work loop
Children(t) ==
    IF t.kind = "start"
    THEN [n \in 1..registry[t.queue] |-> Task("monitor", t.queue, n)]
    ELSE IF t.kind = "monitor"
    THEN <<Task("loop", t.queue, t.n)>>
    ELSE <<>>

\* the event loop runs the oldest ready task up to its first await; for a
\* work loop that is the BLPOP of dequeue
RunHead ==
    /\ ready # <<>>
    /\ begun' = begun \cup {Head(ready)}
    /\ ready' = Tail(ready) \o Children(Head(ready))
    /\ UNCHANGED <<run_pc, recovered, side_len, main_len, handles>>
    /\ StartFrame

\* a producer pushes a task on the main list of a queue
Produce ==
    /\ \E q \in Queues :
          /\ main_len[q] + side_len[q] < MaxLen
          /\ main_len' = [main_len EXCEPT ![q] = @ + 1]
    /\ UNCHANGED <<run_pc, recovered, side_len, handles, ready, begun>>
    /\ StartFrame

NextStart == Connect \/ RecoverNext \/ StartAll \/ RunHead \/ Produce

SpecStart == InitStart /\ [][NextStart]_vars

\* ------------------------------------------------- other status values
\* a value of the status key that is neither "Paused" nor "Running"
OtherStatus == "Draining"

\* another client of the store writes the status key, without a TTL
SetStatus ==
    /\ phase = "running"
    /\ status_key = "Paused"
    /\ status_key' = OtherStatus
    /\ UNCHANGED <<Q, P, coord, execs, pausev, tpc, startv, ghost>>
    /\ UNCHANGED aux

NextStatus == Next \/ SetStatus

SpecStatus == Init /\ [][NextStatus]_vars

\* ------------------------------------------------------------ fair schedule
\* The event loop runs every task that is ready and the store answers every
\* command: each step of the start-up, of an executor, of pause_queue once
\* called and of the reconcile loop is taken when it stays possible.  Nothing
\* obliges a producer to enqueue, a caller to pause or the TTL to run out.
Fairness ==
    /\ WF_vars(Recover)
    /\ WF_vars(StartWorkers)
    /\ \A e \in Execs :
          /\ WF_vars(Blpop(e))
          /\ WF_vars(Rpush(e))
          /\ WF_vars(Handler(e))
          /\ WF_vars(Requeue(e))
          /\ WF_vars(MarkLrange(e))
          /\ WF_vars(MarkLrem(e))
    /\ WF_vars(PauseGet)
    /\ WF_vars(PauseSet)
    /\ WF_vars(PauseStop)
    /\ WF_vars(PauseGather)
    /\ WF_vars(PauseLrange)
    /\ WF_vars(PauseLpush)
    /\ WF_vars(PauseDelete)
    /\ WF_vars(Tick)
    /\ WF_vars(TickGather)

SpecLive == Init /\ [][Next]_vars /\ Fairness

\* the fair schedule with the other client free to write or not
SpecStatusLive == Init /\ [][NextStatus]_vars /\ Fairness

\* the never-paused run under the same schedule; a handler returns or raises
RunFairness ==
    /\ WF_vars(Recover)
    /\ WF_vars(StartWorkers)
    /\ \A e \in Execs :
          /\ WF_vars(Blpop(e))
          /\ WF_vars(Rpush(e))
          /\ WF_vars(Handler(e))
          /\ WF_vars(Requeue(e))
          /\ WF_vars(MarkLrange(e))
          /\ WF_vars(MarkLrem(e))

SpecRunLive == Init /\ [][NextRun]_vars /\ RunFairness

\* one list continues the other
IsPrefix(s, t) == Len(s) <= Len(t) /\ SubSeq(t, 1, Len(s)) = s

\* executor e leaves TaskQueue.requeue in this step
Requeued(e) == pc[e] = "requeue" /\ pc'[e] # "requeue"

\* C13: ids have their first pop in the order they were enqueued in, for any
\* number of executors, and a requeue puts its entry behind every entry that
\* is waiting in the main list.
C13_FifoFirstAttempts ==
    [][/\ \A k, m \in 1..Len(popped') : k < m => popped'[k] < popped'[m]
       /\ ((\E e \in Execs : Requeued(e)) /\ Q' # Q)
            => /\ IsPrefix(Q, Q')
               /\ \A k \in (Len(Q) + 1)..Len(Q') :
                    \E e \in Execs : Requeued(e) /\ Q'[k] = Dumps(cur[e])]_vars

C13_Witness ==
    /\ Len(popped) = MaxTasks
    /\ concurrency = MaxConcurrency
    /\ \E k \in 2..Len(Q) : Loads(Q[k]).retry_count > 0

\* steps of the drain of pause_queue
DrainRead  == ppc = "lrange" /\ ppc' = "lpush"
DrainPush  == ppc = "lpush" /\ ppc' = "delete"
DrainClear == ppc = "delete" /\ ppc' # "delete"

\* C14: the drain of pause_queue reads the whole sidecar, puts its entries at
\* the head of the main list in their sidecar order and ahead of the entries
\* waiting there, and leaves the sidecar empty, so the first entry popped
\* afterwards is the first of the sidecar.
C14_DrainToHead ==
    [][/\ DrainRead => ptasks' = P /\ P # <<>>
       /\ DrainPush => Q' = ptasks \o Q /\ Head(Q') = Head(ptasks)
       /\ DrainClear => P' = <<>>]_vars

C14_Witness ==
    /\ ppc = "delete"
    /\ Len(ptasks) = 2 /\ ptasks[1] # ptasks[2]
    /\ Len(Q) > Len(ptasks)
    /\ IsPrefix(ptasks, Q)

\* a pool is running: the Worker is registered and started, the semaphore is
\* there and the pool has concurrency executors
PoolOk ==
    /\ workers /\ running /\ semaphores
    /\ Cardinality({e \in Execs : pc[e] # "dead"}) = concurrency

\* C15: when the status key is, from some point on, never "Paused", the
\* reconcile loop brings the queue to a running pool of concurrency executors
\* and the queue keeps it, whatever pause_queue calls came before.
C15_ResumeLive == <>[](status_key # "Paused") => <>[]PoolOk

\* C16: in a never-paused run under a fair schedule, with handlers that return
\* or raise, every enqueued task reaches a terminal step and, the enqueues
\* being over, both lists become empty and stay empty.
C16_Terminates ==
    /\ \A i \in Ids : [](i <= next_id => <>(i \in terminal))
    /\ <>[](Q = <<>> /\ P = <<>>)

\* C17: a trigger has at most one execution of its handler in flight, and a
\* run() task is created for it only by a tick that finds none in flight; a
\* tick that finds the trigger running skips it, however long past its
\* next_run the clock is.
C17_NoOverlap ==
    [][\A t \in Triggers :
          /\ inflight'[t] <= 1
          /\ created'[t] > created[t] => inflight[t] = 0
          /\ (inflight[t] = 1 /\ last_tick'[t] # last_tick[t])
                => last_tick'[t] = "skipped"]_vars

C17_Witness ==
    /\ inflight["interval"] = 1
    /\ last_tick["interval"] = "skipped"
    /\ now >= next_run["interval"] + Interval

\* an executor is inside dequeue with the id popped and not yet in the sidecar,
\* or inside mark_completed for the id
InDequeueWindow(i) == \E e \in Execs : pc[e] = "rpush" /\ Loads(raw[e]).id = i
InMarkWindow(i) == \E e \in Execs : pc[e] \in {"lrange", "lrem"} /\ cur[e].id = i

\* C18: an id is in the main list and in the sidecar at once only while an
\* executor is inside dequeue or inside mark_completed for it; the time a
\* pause_queue call takes is left out as well.
C18_OneList ==
    \A i \in Ids :
        (i \in IdsOf(Q) /\ i \in IdsOf(P) /\ ppc = "idle")
            => InDequeueWindow(i) \/ InMarkWindow(i)

\* C19: no entry of the main list carries a start_time and every entry has
\* status pending, whether an enqueue, a requeue, the recovery or the drain of
\* pause_queue put it there.
C19_MainListClean ==
    \A k \in 1..Len(Q) :
        /\ Len(Q[k]) = 5
        /\ Loads(Q[k]).start_time = Absent
        /\ Loads(Q[k]).status = "pending"

C19_Witness ==
    /\ ppc = "delete" /\ ptasks # <<>>
    /\ IsPrefix(ptasks, Q)
    /\ \E k \in 1..Len(Q) : Loads(Q[k]).retry_count > 0

\* steps of process_task: the handler's await ends, the await of the handler
\* begins
HandlerEnds(e) == pc[e] = "handler" /\ pc'[e] # "handler"
HandlerBegins(e) == pc[e] = "rpush" /\ pc'[e] = "handler"

\* C20: in a run that is never paused, an attempt that ends in a raise or a
\* timeout is requeued with retry_count + 1 exactly when its retry_count is
\* below retry_limit, and is otherwise not requeued; the requeue appends the
\* incremented dict; the k-th invocation of a task sees retry_count k - 1, so
\* a task that always fails is invoked retry_limit + 1 times.
C20_RetryRule ==
    [][\A e \in Execs :
          /\ (HandlerEnds(e) /\ outcome'[e] # "success") =>
                IF cur[e].retry_count < retry_limit
                THEN /\ pc'[e] = "requeue"
                     /\ outcome'[e] = "retry"
                     /\ cur'[e].retry_count = cur[e].retry_count + 1
                     /\ cur'[e].id = cur[e].id
                ELSE /\ pc'[e] = "lrange"
                     /\ outcome'[e] = "exhausted"
                     /\ Q' = Q
                     /\ cur[e].retry_count = retry_limit
                     /\ invocations[cur[e].id] = retry_limit + 1
          /\ Requeued(e) => Q' = Append(Q, Dumps(cur[e]))
          /\ HandlerBegins(e) =>
                invocations'[cur'[e].id] = cur'[e].retry_count + 1]_vars

C20_Witness ==
    /\ retry_limit = MaxRetry
    /\ \E e \in Execs :
          /\ outcome[e] = "exhausted"
          /\ invocations[cur[e].id] = MaxRetry + 1

\* steps of an executor in a run with failures: its requeue fails, its
\* mark_completed returns without a failure of its own
RequeueFailed(e) ==
    pc[e] = "requeue" /\ pc'[e] # "requeue" /\ faults'["requeue"] > faults["requeue"]
MarkDone(e) ==
    pc[e] \in {"lrange", "lrem"} /\ pc'[e] \notin {"lrange", "lrem"} /\ faults' = faults

\* no mark_completed has failed so far: no attempt has left its entry behind
MarkNeverFailed == faults["lrange"] = 0 /\ faults["lrem"] = 0

Unattended(k) ==
    \A e \in Execs :
        ~(pc[e] \in {"handler", "requeue", "lrange", "lrem"}
          /\ cur[e].id = Loads(P[k]).id)

\* C22: a task whose name has no registered handler is not retried, and once
\* process_task has failed for it its entry is gone from the sidecar.
C22_NotFoundCleared ==
    \A k \in 1..Len(P) :
        ~Registered(Loads(P[k]).name) =>
            /\ ~Unattended(k)
            /\ Loads(P[k]).id \notin IdsOf(Q)

\* the reconcile loop ends the branch it took on reading "Paused" with the
\* mirror at "Running": its stop has returned and it has dropped the pool
TickPausedDone == tpc = "gather" /\ tpc' = "sleep"

\* C23: the reconcile tick that sees the queue go from Running to Paused
\* stops the pool, drops its handle, leaves the sidecar drained and leaves the
\* status key alone.
C23_TickDrains ==
    [][TickPausedDone =>
          /\ ~workers' /\ ~running'
          /\ P' = <<>>
          /\ status_key' = status_key]_vars

\* a pause_queue call that has set the status key ends
PauseReturns == ppc \in {"stop", "gather", "lrange", "lpush", "delete"} /\ ppc' = "idle"

\* C24: however a pause_queue call and the reconcile loop interleave, the
\* call ends without raising, with the pool stopped and removed, the sidecar
\* drained and the mirror at "Paused".
C24_PauseWins ==
    [][PauseReturns =>
          /\ presult' = "ok"
          /\ ~workers' /\ ~running'
          /\ P' = <<>>
          /\ queue_status' = "Paused"]_vars

\* the list without its k-th entry
RemoveAt(list, k) ==
    [m \in 1..(Len(list) - 1) |-> IF m < k THEN list[m] ELSE list[m + 1]]

\* C25: a mark_completed call for an id the sidecar carries removes the first
\* entry carrying the id and nothing else: every other entry, one with the
\* same bytes included, stays in its place.
C25_RemovesOne ==
    (MarkReturned /\ api.id \in IdsOf(api.P0))
        => P = RemoveAt(api.P0, FirstWithId(api.P0, api.id))

\* an execution of the handler of trigger t ends in this step
Ended(t) == inflight'[t] < inflight[t]

\* C26: when a trigger's handler ends, by returning or by raising, the flag
\* is cleared, last_run is the current time and next_run is computed from the
\* current time (now + period for the interval trigger, the next match for
\* the cron trigger); the other triggers are left as they are, and a trigger
\* with no execution in flight or about to start never has its flag set, so
\* the tick loop fires it again when it is due.
C26_RunEndResets ==
    [][\A t \in Triggers :
          /\ Ended(t) =>
                /\ ~is_running'[t]
                /\ last_run'[t] = now
                /\ next_run'[t] > now
                /\ next_run'[t] = IF t = "interval" THEN now + Interval
                                  ELSE CronNext(now)
                /\ \A u \in Triggers \ {t} :
                      /\ is_running'[u] = is_running[u]
                      /\ next_run'[u] = next_run[u]
                      /\ inflight'[u] = inflight[u]
          /\ (inflight'[t] = 0 /\ created'[t] = 0) => ~is_running'[t]
          /\ (created'[t] > created[t]) => now >= next_run[t]]_vars

C26_Witness ==
    /\ last_end["interval"] = "raise"
    /\ inflight["interval"] = 1
    /\ last_run["interval"] # Never
    /\ inflight["cron"] = 1

\* tasks of a kind that have run up to their first await
Begun(kind) == {t \in begun : t.kind = kind}

\* C27: nothing is recovered before the connection is there, no pool exists
\* and no executor awaits its first BLPOP before the recovery call has
\* returned for every registered queue, and the scheduler and the reconcile
\* loop make their first pass after Worker.start has run for every queue.
C27_StartupOrder ==
    /\ recovered > 0 => run_pc \in {"recover", "sleep"}
    /\ (handles # {} \/ begun # {} \/ ready # <<>>) =>
          recovered = Len(QueueOrder)
    /\ (SchedulerTask \in begun \/ ReconcileTask \in begun) =>
          {t.queue : t \in Begun("start")} = Queues
    /\ \A t \in Begun("loop") : t.queue \in handles

C27_Witness ==
    /\ ready = <<>> /\ run_pc = "sleep"
    /\ Cardinality(Begun("loop")) = Cardinality(Queues) * MaxConcurrency
    /\ SchedulerTask \in begun /\ ReconcileTask \in begun
    /\ \A q \in Queues : side_len[q] = 0 /\ main_len[q] > 0

\* a Worker.stop that had found the pool running returns from its gather
StopReturns ==
    \/ ppc = "gather" /\ ppc' # "gather"
    \/ tpc = "gather" /\ tpc' # "gather"

\* executors inside a handler
InHandler == {e \in Execs : pc[e] = "handler"}

\* C28: when Worker.stop returns from a pool it found running, _running is
\* false, every executor has ended, no handler is in flight and every permit
\* of the pool's semaphore is free.
C28_StopLeavesNothing ==
    [][StopReturns =>
          /\ ~running'
          /\ AllDead'
          /\ InHandler' = {}
          /\ sem' = PoolSize(concurrency)]_vars

C28_Witness ==
    /\ ppc = "lrange"
    /\ concurrency = MaxConcurrency
    /\ ~running /\ AllDead /\ sem = PoolSize(concurrency)
    /\ \E i \in 1..next_id :
          /\ invocations[i] = 1 /\ i \notin terminal
          /\ FirstWithId(Q, i) = 0 /\ FirstWithId(P, i) = 0

\* executors that have not ended: each is inside the with block of its loop
Alive == {e \in Execs : pc[e] # "dead"}

\* C29: whichever way an iteration of the work loop ends (task processed, no
\* task, dequeue error, error out of process_task, cancellation) its permit
\* goes back: free permits plus executors inside the block make the capacity.
C29_GateBalanced ==
    semaphores =>
        /\ sem >= 0
        /\ sem + Cardinality(Alive) = PoolSize(concurrency)

C29_Witness ==
    /\ semaphores /\ concurrency = MaxConcurrency
    /\ Failed = MaxFaults
    /\ done # {}
    /\ ~running /\ AllDead
    /\ sem = PoolSize(concurrency)

\* C30: while the pool runs, a store error in dequeue, an error that escapes
\* process_task and a failure of mark_completed all leave the executor in its
\* loop: the executors alive are as many as the pool's concurrency.
C30_ExecutorsStay ==
    (workers /\ running) => Cardinality(Alive) = PoolSize(concurrency)

C30_Witness ==
    /\ workers /\ running /\ concurrency = MaxConcurrency
    /\ faults["blpop"] = MaxFaults
    /\ \E k \in 1..Len(P) : Loads(P[k]).name = ForeignName
    /\ \A e \in Execs : pc[e] = "blpop"

\* C31: a stored status that is neither "Paused" nor "Running" counts as
\* "Running": with the mirror at "Paused" and such a value in the key, the
\* reconcile loop sets the mirror to "Running" and starts a pool, unless the
\* key changes first.
C31_OtherIsRunning ==
    (queue_status = "Paused" /\ status_key = OtherStatus /\ tpc = "sleep")
        ~> ((queue_status = "Running" /\ workers) \/ status_key # OtherStatus)

\* C32: a pool that pause_queue or the reconcile loop has taken out of
\* mTask.workers has no executor left: with no Worker registered for the
\* queue, every executor has ended.
C32_RemovedPoolDead == ~workers => AllDead

\* an executor's dequeue ends after its BLPOP has popped an entry: the RPUSH
\* to the sidecar returns or raises, or the executor is cancelled
DequeueEnds(e) == pc[e] = "rpush" /\ pc'[e] # "rpush"

\* C33: dequeue loses no task: when a dequeue that has popped an entry from
\* the main list ends, by return, store error or cancellation, the entry is in
\* the sidecar or in the main list.
C33_DequeueKeeps ==
    [][\A e \in Execs :
          DequeueEnds(e) =>
              Loads(raw[e]).id \in IdsOf(P') \cup IdsOf(Q')]_vars

\* the process is started and neither pause_queue nor a pass of the reconcile
\* loop is under way
BetweenCalls == phase = "running" /\ ppc = "idle" /\ tpc # "gather"

\* C34: between the calls the mirror agrees with the pool set: it is "Paused"
\* exactly when mTask.workers has no pool for the queue and "Running" exactly
\* when it has one, also after a pause_queue that raised.
C34_MirrorAgrees ==
    BetweenCalls =>
        /\ queue_status = "Paused" <=> ~workers
        /\ queue_status = "Running" <=> workers
====
